---- MODULE Spec2Model ----
(***************************************************************************)
(* Model of the GhostLab42Reboot driver (GhostLab42Reboot.cpp): two        *)
(* IS31FL3730 display chips on one I2C bus, driven through the Arduino     *)
(* Wire object.  One step of the model is one statement of the driver     *)
(* that calls Wire (beginTransmission, write, endTransmission) or changes *)
(* a local variable; pc is the position inside the running public call.   *)
(* Bytes and characters are their integer codes.                          *)
(***************************************************************************)
EXTENDS Integers, Sequences, FiniteSets

(***************************************************************************)
(* Program constants.                                                      *)
(***************************************************************************)
IS31FL3730_DIGIT_4_I2C_ADDRESS == 99
IS31FL3730_DIGIT_6_I2C_ADDRESS == 96
IS31FL3730_Data_Registers == 1
IS31FL3730_Update_Column_Register == 12
IS31FL3730_Lighting_Effect_Register == 13
IS31FL3730_PWM_Register == 25
IS31FL3730_Reset_Register == 255

\* the payload setDisplayPowerMax writes (20mA) and the one
\* setDisplayPowerMin would write (10mA)
PowerMaxPayload == 11
PowerMinPayload == 8
\* the ignored payload byte of the reset and the update-column writes
IgnoredPayload == 0

Addresses == {IS31FL3730_DIGIT_4_I2C_ADDRESS, IS31FL3730_DIGIT_6_I2C_ADDRESS}

(***************************************************************************)
(* Bounds of the model.                                                    *)
(***************************************************************************)
\* digit-count arguments are drawn from -MaxDigits..MaxDigits
MaxDigits == 7
\* texts handed to write() have 0..MaxTextLen characters
MaxTextLen == 7
\* brightness arguments are drawn from -MaxOver..100+MaxOver
MaxOver == 3
\* number of equidistant values of random() tried, besides its largest
RandomSamples == 99

(***************************************************************************)
(* Types and inputs.                                                       *)
(***************************************************************************)
\* a char and a byte have 8 bits
CharBits == 8
CharValues == 0..(2^CharBits - 1)
NUL == 0

\* random(100000, 999999) returns a long in [100000, 999999)
RandomMin == 100000
RandomMax == 999999

\* setDisplayBrightness compares the percentage with 0 and 100, scales it to
\* 128 settings and caps the byte at 0x80
PercentMin == 0
PercentMax == 100
PwmSettings == 128
PwmMax == 128

DigitInputs == (0 - MaxDigits)..MaxDigits

\* the characters of the texts: '1' and 'A', and two texts with other digits
Alphabet == {49, 65}
ExampleTexts == {<<52, 50>>, <<49, 50, 51, 52, 53, 54, 55>>}
TextInputs ==
    UNION {[1..k -> Alphabet] : k \in 0..MaxTextLen} \cup ExampleTexts

BrightnessInputs == (PercentMin - MaxOver)..(PercentMax + MaxOver)

RandomInputs ==
    {r \in {RandomMin + k * ((RandomMax - RandomMin) \div RandomSamples) :
                k \in 0..RandomSamples} : r < RandomMax}
        \cup {RandomMax - 1}

\* what a read outside an array can return: any char; a blank one (NUL) and
\* a lit one ('8') stand for the two kinds charToDisplayByte tells apart
IndeterminateChars == {NUL, 56}

(***************************************************************************)
(* State.                                                                  *)
(***************************************************************************)
VARIABLES
    pc,            \* next statement of the running call, "idle" between calls
    op,            \* the public operation running, or the last one that returned
    arg,           \* the digit count the caller passed to it
    ret,           \* where the running private function returns to
    began,         \* begin() has returned at least once
    digits,        \* the parameter/local "digits" of the running function
    value,         \* the char array write() reads: all the storage behind value[]
    i,             \* the loop index of write()
    readPast,      \* write() has read an element outside value's storage
    rnd,           \* what random() returned in getRandomString
    wrotePast,     \* getRandomString has written outside randomString
    brightness,    \* the brightness argument of setDisplayBrightness
    PWM,           \* the local byte PWM of setDisplayBrightness
    displayCharacter, \* the argument of the latest charToDisplayByte call
    displayByte,   \* and what it returned
    wire,          \* the Wire object: transmitting flag, address, tx buffer
    sent,          \* transactions closed (endTransmission) by the running call
    acked,         \* for each of them, whether the transport delivered it
    currentLimit,  \* per chip: the current limit its Lighting Effect register gives
    registers,     \* per chip: staged data, visible data and PWM registers
    setup,         \* the sketch and the board the driver runs in
    running,       \* the task that is executing
    parked,        \* the call state of the task that is not
    holder         \* the task inside the sketch's lock around a call, 0 for none

vars == <<pc, op, arg, ret, began, digits, value, i, readPast, rnd, wrotePast,
          brightness, PWM, displayCharacter, displayByte, wire, sent, acked,
          currentLimit, registers, setup, running, parked, holder>>

\* the locals of write/writeRandom, of setDisplayBrightness, of charToDisplayByte
writeVars == <<value, i, readPast, rnd, wrotePast>>
pwmVars == <<brightness, PWM>>
encodeVars == <<displayCharacter, displayByte>>
locals == <<writeVars, pwmVars, encodeVars>>

\* what no statement of the driver changes, and what only endTransmission does
host == <<setup, running, parked>>
busVars == <<sent, acked, currentLimit, registers>>

(***************************************************************************)
(* The sketch and the board.  The driver has no state of its own for them: *)
(* narrow says the sketch passes few different arguments, chips that the   *)
(* data and PWM registers of the chips are followed, faulty that the       *)
(* transport may fail a transaction, tasks how many tasks call the driver, *)
(* locking that each of them holds one lock around every public call, once *)
(* that each task makes a single call.                                     *)
(***************************************************************************)
Sequential ==
    [narrow |-> FALSE, chips |-> FALSE, faulty |-> FALSE, tasks |-> 1,
     locking |-> FALSE, once |-> FALSE]

\* the arguments a sketch of few arguments passes
NarrowDigits == {4, 5, 6}
NarrowTexts == {<<52, 50>>, <<49, 50, 51, 52, 53, 54, 55>>}
NarrowBrightness == {50}
NarrowRandom == {RandomMin}

DigitChoices == IF setup.narrow THEN NarrowDigits ELSE DigitInputs
TextChoices == IF setup.narrow THEN NarrowTexts ELSE TextInputs
BrightnessChoices == IF setup.narrow THEN NarrowBrightness ELSE BrightnessInputs
RandomChoices == IF setup.narrow THEN NarrowRandom ELSE RandomInputs

(***************************************************************************)
(* The Wire object, as the driver uses it.  owners and misuse are not part *)
(* of it: they record which tasks put something into the transaction being *)
(* built, and every call that came in the wrong state.                     *)
(***************************************************************************)
WireIdle ==
    [open |-> FALSE, address |-> 0, buffer |-> <<>>, owners |-> {},
     misuse |-> {}]

\* Wire.beginTransmission(address): start buffering for the address
WireBeginTransmission(address) ==
    [open |-> TRUE, address |-> address, buffer |-> <<>>,
     owners |-> {running},
     misuse |-> IF wire.open THEN wire.misuse \cup {"begin while open"}
                ELSE wire.misuse]

\* Wire.write(b): append one byte to the transmit buffer; outside a
\* transmission the byte does not go to the buffer
WireWrite(b) ==
    IF wire.open
    THEN [wire EXCEPT !.buffer = Append(@, b), !.owners = @ \cup {running}]
    ELSE [wire EXCEPT !.misuse = @ \cup {"write while closed"}]

\* the Wire object after Wire.endTransmission()
WireEnded ==
    [open |-> FALSE, address |-> wire.address, buffer |-> <<>>, owners |-> {},
     misuse |-> IF wire.open THEN wire.misuse
                ELSE wire.misuse \cup {"end while closed"}]

\* the transaction Wire.endTransmission() puts on the bus
Transaction == [address |-> wire.address, bytes |-> wire.buffer]

(***************************************************************************)
(* The chip, as far as the driver's comments describe it.                  *)
(***************************************************************************)
\* the current limit a Lighting Effect payload selects; every payload other
\* than the two the driver knows leaves the limit above the displays' rating
LimitOfPayload(b) ==
    IF b = PowerMaxPayload THEN "Max"
    ELSE IF b = PowerMinPayload THEN "Min"
    ELSE "Unsafe"

\* the current limit of the chip at address a after transaction t reached the bus
LimitAfter(t, a) ==
    IF t.address # a \/ Len(t.bytes) < 2 THEN currentLimit[a]
    ELSE IF t.bytes[1] = IS31FL3730_Reset_Register THEN "Unsafe"
    ELSE IF t.bytes[1] = IS31FL3730_Lighting_Effect_Register
         THEN LimitOfPayload(t.bytes[2])
    ELSE currentLimit[a]

\* the Matrix 1 data registers are 01h..0Bh
DataRegisters == 11

\* all registers at their default: a blank display, full PWM
RegistersDefault ==
    [staging |-> [k \in 1..DataRegisters |-> 0],
     visible |-> [k \in 1..DataRegisters |-> 0],
     pwm |-> PwmMax]

\* the temporary registers after the bytes that follow register index first
StagedAfter(old, first, bytes) ==
    [k \in 1..DataRegisters |->
        IF k >= first /\ k - first + 2 <= Len(bytes)
        THEN bytes[k - first + 2] ELSE old[k]]

\* mutation: a chip without temporary registers, data bytes show at once
RegistersAfterUnstaged(t, a) ==
    IF ~setup.chips \/ t.address # a \/ Len(t.bytes) < 2 THEN registers[a]
    ELSE IF t.bytes[1] = IS31FL3730_Reset_Register THEN RegistersDefault
    ELSE IF t.bytes[1] = IS31FL3730_PWM_Register
         THEN [registers[a] EXCEPT !.pwm = t.bytes[2]]
    ELSE IF t.bytes[1] \in 1..DataRegisters
         THEN [registers[a] EXCEPT
                  !.staging = StagedAfter(@, t.bytes[1], t.bytes),
                  !.visible = StagedAfter(@, t.bytes[1], t.bytes)]
    ELSE registers[a]

\* the data and PWM registers of the chip at address a after transaction t
RegistersAfter(t, a) ==
    IF ~setup.chips \/ t.address # a \/ Len(t.bytes) < 2 THEN registers[a]
    ELSE IF t.bytes[1] = IS31FL3730_Reset_Register THEN RegistersDefault
    ELSE IF t.bytes[1] = IS31FL3730_Update_Column_Register
         THEN [registers[a] EXCEPT !.visible = registers[a].staging]
    ELSE IF t.bytes[1] = IS31FL3730_PWM_Register
         THEN [registers[a] EXCEPT !.pwm = t.bytes[2]]
    ELSE IF t.bytes[1] \in 1..DataRegisters
         THEN [registers[a] EXCEPT
                  !.staging = StagedAfter(@, t.bytes[1], t.bytes)]
    ELSE registers[a]

\* what can reach the chip of a transaction t: all of it, or when the
\* transport fails any shorter beginning of it
Deliveries(t) ==
    {[ok |-> TRUE, got |-> t]} \cup
    (IF setup.faulty
     THEN {[ok |-> FALSE,
            got |-> [address |-> t.address, bytes |-> SubSeq(t.bytes, 1, n)]] :
                n \in 0..(Len(t.bytes) - 1)}
     ELSE {})

\* Wire.endTransmission(): the buffer goes out as one transaction, the chip
\* acts on what it gets; the driver drops the status returned
WireEndTransmission ==
    /\ wire' = WireEnded
    /\ sent' = Append(sent, Transaction)
    /\ \E d \in Deliveries(Transaction) :
        /\ acked' = Append(acked, d.ok)
        /\ currentLimit' = [a \in Addresses |-> LimitAfter(d.got, a)]
        /\ registers' = [a \in Addresses |-> RegistersAfter(d.got, a)]

(***************************************************************************)
(* setupWireTransmission(digits)                                           *)
(***************************************************************************)
\* mutation: the test is for the six digit display
DisplayAddressBySix(d) ==
    IF d = 6 THEN IS31FL3730_DIGIT_6_I2C_ADDRESS
    ELSE IS31FL3730_DIGIT_4_I2C_ADDRESS

DisplayAddress(d) ==
    IF d = 4 THEN IS31FL3730_DIGIT_4_I2C_ADDRESS
    ELSE IS31FL3730_DIGIT_6_I2C_ADDRESS

\* mutation: every transmission is begun for the four digit display
setupWireTransmissionFour(d) ==
    wire' = WireBeginTransmission(IS31FL3730_DIGIT_4_I2C_ADDRESS)

setupWireTransmission(d) ==
    wire' = WireBeginTransmission(DisplayAddress(d))

(***************************************************************************)
(* Power-on state: nothing running, both chips at their reset default.     *)
(***************************************************************************)
NoLocals ==
    /\ value = <<>>
    /\ i = 0
    /\ readPast = FALSE
    /\ rnd = 0
    /\ wrotePast = FALSE
    /\ brightness = 0
    /\ PWM = 0
    /\ displayCharacter = NUL
    /\ displayByte = 0

\* the call state of a task that is between calls and has made none
NoCall ==
    [pc |-> "idle", op |-> "none", arg |-> 0, ret |-> "idle", digits |-> 0,
     value |-> <<>>, i |-> 0, readPast |-> FALSE, rnd |-> 0,
     wrotePast |-> FALSE, brightness |-> 0, PWM |-> 0,
     displayCharacter |-> NUL, displayByte |-> 0, sent |-> <<>>,
     acked |-> <<>>]

PowerOn(s) ==
    /\ pc = "idle"
    /\ op = "none"
    /\ arg = 0
    /\ ret = "idle"
    /\ began = FALSE
    /\ digits = 0
    /\ NoLocals
    /\ wire = WireIdle
    /\ sent = <<>>
    /\ acked = <<>>
    /\ currentLimit = [a \in Addresses |-> "Unsafe"]
    /\ registers = [a \in Addresses |-> RegistersDefault]
    /\ setup = s
    /\ running = 1
    /\ parked = NoCall
    /\ holder = 0

Init == PowerOn(Sequential)

\* no local of any operation holds anything after the step
ClearLocals ==
    /\ i' = 0
    /\ readPast' = FALSE
    /\ rnd' = 0
    /\ wrotePast' = FALSE
    /\ PWM' = 0
    /\ displayCharacter' = NUL
    /\ displayByte' = 0

\* mutation: the call is entered whoever holds the lock
EnterUnlocked(name, d, storage, percent, first) ==
    /\ pc = "idle"
    /\ setup.once => op = "none"
    /\ pc' = first
    /\ op' = name
    /\ arg' = d
    /\ digits' = d
    /\ value' = storage
    /\ brightness' = percent
    /\ ClearLocals
    /\ sent' = <<>>
    /\ acked' = <<>>
    /\ UNCHANGED <<began, holder, host, wire, currentLimit, registers>>

\* a public operation is entered: fresh locals, nothing sent by it yet; a
\* sketch that locks enters with the lock taken
Enter(name, d, storage, percent, first) ==
    /\ pc = "idle"
    /\ setup.once => op = "none"
    /\ setup.locking => holder = 0
    /\ holder' = IF setup.locking THEN running ELSE holder
    /\ pc' = first
    /\ op' = name
    /\ arg' = d
    /\ digits' = d
    /\ value' = storage
    /\ brightness' = percent
    /\ ClearLocals
    /\ sent' = <<>>
    /\ acked' = <<>>
    /\ UNCHANGED <<began, host, wire, currentLimit, registers>>

\* the closing brace of each public operation
ReturnPoints ==
    {"begin_return", "write_return", "random_return", "reset_return", "pwm_return"}

\* the operation returns to the sketch; its locals are gone, the lock is free
Return ==
    /\ pc \in ReturnPoints
    /\ pc' = "idle"
    /\ began' = (began \/ op = "begin")
    /\ holder' = 0
    /\ arg' = 0
    /\ digits' = 0
    /\ ret' = "idle"
    /\ value' = <<>>
    /\ brightness' = 0
    /\ ClearLocals
    /\ sent' = <<>>
    /\ acked' = <<>>
    /\ UNCHANGED <<op, host, wire, currentLimit, registers>>

\* the scheduler gives the processor to the other task, between any two
\* statements of the driver
Switch ==
    /\ setup.tasks = 2
    /\ running' = 3 - running
    /\ parked' =
        [pc |-> pc, op |-> op, arg |-> arg, ret |-> ret, digits |-> digits,
         value |-> value, i |-> i, readPast |-> readPast, rnd |-> rnd,
         wrotePast |-> wrotePast, brightness |-> brightness, PWM |-> PWM,
         displayCharacter |-> displayCharacter, displayByte |-> displayByte,
         sent |-> sent, acked |-> acked]
    /\ pc' = parked.pc
    /\ op' = parked.op
    /\ arg' = parked.arg
    /\ ret' = parked.ret
    /\ digits' = parked.digits
    /\ value' = parked.value
    /\ i' = parked.i
    /\ readPast' = parked.readPast
    /\ rnd' = parked.rnd
    /\ wrotePast' = parked.wrotePast
    /\ brightness' = parked.brightness
    /\ PWM' = parked.PWM
    /\ displayCharacter' = parked.displayCharacter
    /\ displayByte' = parked.displayByte
    /\ sent' = parked.sent
    /\ acked' = parked.acked
    /\ UNCHANGED <<began, wire, currentLimit, registers, setup, holder>>

(***************************************************************************)
(* begin()                                                                 *)
(***************************************************************************)
CallBegin ==
    /\ Enter("begin", 0, <<>>, 0, "begin_wire")
    /\ ret' = "idle"

\* Wire.begin(); setDisplayPowerMax(4);
BeginPowerMax4 ==
    /\ pc = "begin_wire"
    /\ wire' = [WireIdle EXCEPT !.misuse = wire.misuse]
    /\ digits' = 4
    /\ ret' = "begin_6"
    /\ pc' = "pmax_setup"
    /\ UNCHANGED <<op, holder, arg, began, host, busVars, locals>>

\* mutation: the second call names the four digit display again
BeginPowerMax4Again ==
    /\ pc = "begin_6"
    /\ digits' = 4
    /\ ret' = "begin_return"
    /\ pc' = "pmax_setup"
    /\ UNCHANGED <<op, holder, arg, began, host, wire, busVars, locals>>

\* setDisplayPowerMax(6);
BeginPowerMax6 ==
    /\ pc = "begin_6"
    /\ digits' = 6
    /\ ret' = "begin_return"
    /\ pc' = "pmax_setup"
    /\ UNCHANGED <<op, holder, arg, began, host, wire, busVars, locals>>

(***************************************************************************)
(* setDisplayPowerMax(digits)                                              *)
(***************************************************************************)
PowerMaxSetup ==
    /\ pc = "pmax_setup"
    /\ setupWireTransmission(digits)
    /\ pc' = "pmax_register"
    /\ UNCHANGED <<op, holder, arg, ret, began, host, digits, busVars, locals>>

PowerMaxRegister ==
    /\ pc = "pmax_register"
    /\ wire' = WireWrite(IS31FL3730_Lighting_Effect_Register)
    /\ pc' = "pmax_payload"
    /\ UNCHANGED <<op, holder, arg, ret, began, host, digits, busVars, locals>>

\* mutation: the payload is the one of setDisplayPowerMin
PowerMinPayloadWrite ==
    /\ pc = "pmax_payload"
    /\ wire' = WireWrite(PowerMinPayload)
    /\ pc' = "pmax_end"
    /\ UNCHANGED <<op, holder, arg, ret, began, host, digits, busVars, locals>>

PowerMaxPayloadWrite ==
    /\ pc = "pmax_payload"
    /\ wire' = WireWrite(PowerMaxPayload)
    /\ pc' = "pmax_end"
    /\ UNCHANGED <<op, holder, arg, ret, began, host, digits, busVars, locals>>

PowerMaxEnd ==
    /\ pc = "pmax_end"
    /\ WireEndTransmission
    /\ pc' = ret
    /\ UNCHANGED <<op, holder, arg, ret, began, host, digits, locals>>

(***************************************************************************)
(* resetDisplay(digits)                                                    *)
(***************************************************************************)
CallResetDisplay ==
    /\ pc = "idle"
    /\ began
    /\ \E d \in DigitChoices : Enter("resetDisplay", d, <<>>, 0, "reset_setup")
    /\ ret' = "idle"

ResetSetup ==
    /\ pc = "reset_setup"
    /\ setupWireTransmission(digits)
    /\ pc' = "reset_register"
    /\ UNCHANGED <<op, holder, arg, ret, began, host, digits, busVars, locals>>

ResetRegister ==
    /\ pc = "reset_register"
    /\ wire' = WireWrite(IS31FL3730_Reset_Register)
    /\ pc' = "reset_payload"
    /\ UNCHANGED <<op, holder, arg, ret, began, host, digits, busVars, locals>>

ResetPayload ==
    /\ pc = "reset_payload"
    /\ wire' = WireWrite(IgnoredPayload)
    /\ pc' = "reset_end"
    /\ UNCHANGED <<op, holder, arg, ret, began, host, digits, busVars, locals>>

\* mutation: the reset transaction is never ended
ResetEndOmitted ==
    /\ pc = "reset_end"
    /\ pc' = "reset_powermax"
    /\ UNCHANGED <<op, holder, arg, ret, began, host, digits, wire, busVars, locals>>

ResetEnd ==
    /\ pc = "reset_end"
    /\ WireEndTransmission
    /\ pc' = "reset_powermax"
    /\ UNCHANGED <<op, holder, arg, ret, began, host, digits, locals>>

\* mutation: resetDisplay returns without setDisplayPowerMax
ResetPowerMaxSkipped ==
    /\ pc = "reset_powermax"
    /\ pc' = "reset_return"
    /\ UNCHANGED <<op, holder, arg, ret, began, host, digits, wire, busVars, locals>>

\* setDisplayPowerMax(digits);
ResetPowerMax ==
    /\ pc = "reset_powermax"
    /\ ret' = "reset_return"
    /\ pc' = "pmax_setup"
    /\ UNCHANGED <<op, holder, arg, began, host, digits, wire, busVars, locals>>

(***************************************************************************)
(* charToDisplayByte(displayCharacter)                                     *)
(***************************************************************************)
\* mutation: a char outside the table is returned as it is
charToDisplayByteUnconverted(c) ==
    IF c = 48 THEN 63
    ELSE IF c = 49 THEN 6
    ELSE IF c = 50 THEN 91
    ELSE IF c = 51 THEN 79
    ELSE IF c = 52 THEN 102
    ELSE IF c = 53 THEN 109
    ELSE IF c = 54 THEN 125
    ELSE IF c = 55 THEN 7
    ELSE IF c = 56 THEN 127
    ELSE IF c = 57 THEN 111
    ELSE c

charToDisplayByte(c) ==
    IF c = 48 THEN 63            \* '0' 0x3F
    ELSE IF c = 49 THEN 6        \* '1' 0x06
    ELSE IF c = 50 THEN 91       \* '2' 0x5B
    ELSE IF c = 51 THEN 79       \* '3' 0x4F
    ELSE IF c = 52 THEN 102      \* '4' 0x66
    ELSE IF c = 53 THEN 109      \* '5' 0x6D
    ELSE IF c = 54 THEN 125      \* '6' 0x7D
    ELSE IF c = 55 THEN 7        \* '7' 0x07
    ELSE IF c = 56 THEN 127      \* '8' 0x7F
    ELSE IF c = 57 THEN 111      \* '9' 0x6F
    ELSE 0                       \* NULL

(***************************************************************************)
(* write(digits, value)                                                    *)
(***************************************************************************)
\* if (digits != 4) digits = 6;
NormalizeDigits(d) == IF d # 4 THEN 6 ELSE d

\* a caller's text as a char array: its characters and the terminator
Storage(text) == Append(text, NUL)

\* what reading value[k] can give: the element when the array has one, any
\* char when k is outside the array
ReadValue(k) ==
    IF k < Len(value) THEN {value[k + 1]} ELSE IndeterminateChars

\* mutation: the loop runs once more
LoopContinuesInclusive == i <= digits

\* the test of the for loop
LoopContinues == i < digits

CallWrite ==
    /\ pc = "idle"
    /\ began
    /\ \E d \in DigitChoices, text \in TextChoices :
        /\ Enter("write", d, Storage(text), 0, "write_normalize")
        /\ ret' = "write_return"

WriteNormalize ==
    /\ pc = "write_normalize"
    /\ digits' = NormalizeDigits(digits)
    /\ pc' = "write_setup"
    /\ UNCHANGED <<op, holder, arg, ret, began, host, wire, busVars, locals>>

\* mutation: the data stage is written without a transmission begun
WriteSetupOmitted ==
    /\ pc = "write_setup"
    /\ pc' = "write_register"
    /\ UNCHANGED <<op, holder, arg, ret, began, host, digits, wire, busVars,
                   locals>>

WriteSetup ==
    /\ pc = "write_setup"
    /\ setupWireTransmission(digits)
    /\ pc' = "write_register"
    /\ UNCHANGED <<op, holder, arg, ret, began, host, digits, busVars, locals>>

\* Wire.write(IS31FL3730_Data_Registers); int i = 0
WriteRegister ==
    /\ pc = "write_register"
    /\ wire' = WireWrite(IS31FL3730_Data_Registers)
    /\ i' = 0
    /\ pc' = "write_loop"
    /\ UNCHANGED <<op, holder, arg, ret, began, host, digits, busVars, value,
                   readPast, rnd, wrotePast, pwmVars, encodeVars>>

\* Wire.write(charToDisplayByte(value[i])); i++
WriteLoop ==
    /\ pc = "write_loop"
    /\ LoopContinues
    /\ \E c \in ReadValue(i) :
        /\ displayCharacter' = c
        /\ displayByte' = charToDisplayByte(c)
        /\ wire' = WireWrite(charToDisplayByte(c))
    /\ readPast' = (readPast \/ i >= Len(value))
    /\ i' = i + 1
    /\ UNCHANGED <<pc, op, holder, arg, ret, began, host, digits, busVars, value,
                   rnd, wrotePast, pwmVars>>

WriteLoopExit ==
    /\ pc = "write_loop"
    /\ ~LoopContinues
    /\ pc' = "write_end"
    /\ UNCHANGED <<op, holder, arg, ret, began, host, digits, wire, busVars, locals>>

\* mutation: write() looks at the status and gives up when the data stage
\* was not delivered
WriteEndChecked ==
    /\ pc = "write_end"
    /\ WireEndTransmission
    /\ pc' = IF acked'[Len(acked')] THEN "commit_setup" ELSE ret
    /\ UNCHANGED <<op, holder, arg, ret, began, host, digits, locals>>

\* mutation: the data stage is not ended, the commit bytes follow it
WriteEndFused ==
    /\ pc = "write_end"
    /\ pc' = "commit_register"
    /\ UNCHANGED <<op, holder, arg, ret, began, host, digits, wire, busVars, locals>>

WriteEnd ==
    /\ pc = "write_end"
    /\ WireEndTransmission
    /\ pc' = "commit_setup"
    /\ UNCHANGED <<op, holder, arg, ret, began, host, digits, locals>>

WriteCommitSetup ==
    /\ pc = "commit_setup"
    /\ setupWireTransmission(digits)
    /\ pc' = "commit_register"
    /\ UNCHANGED <<op, holder, arg, ret, began, host, digits, busVars, locals>>

WriteCommitRegister ==
    /\ pc = "commit_register"
    /\ wire' = WireWrite(IS31FL3730_Update_Column_Register)
    /\ pc' = "commit_payload"
    /\ UNCHANGED <<op, holder, arg, ret, began, host, digits, busVars, locals>>

WriteCommitPayload ==
    /\ pc = "commit_payload"
    /\ wire' = WireWrite(IgnoredPayload)
    /\ pc' = "commit_end"
    /\ UNCHANGED <<op, holder, arg, ret, began, host, digits, busVars, locals>>

WriteCommitEnd ==
    /\ pc = "commit_end"
    /\ WireEndTransmission
    /\ pc' = ret
    /\ UNCHANGED <<op, holder, arg, ret, began, host, digits, locals>>

(***************************************************************************)
(* writeRandom(digits) and getRandomString(digits, randomString)           *)
(***************************************************************************)
\* String(n): the decimal digits of a positive long, as characters
RECURSIVE DecimalString(_)
DecimalString(n) ==
    IF n < 10 THEN <<48 + n>>
    ELSE Append(DecimalString(n \div 10), 48 + (n % 10))

\* str.toCharArray(buf, bufsize): the writes it makes, as index :> char (the
\* indices count from 0): the first min(bufsize - 1, length) characters of
\* str, then a terminator right after them
ToCharArrayCopied(str, bufsize) ==
    IF bufsize - 1 > Len(str) THEN Len(str) ELSE bufsize - 1

ToCharArrayWrites(str, bufsize) ==
    [k \in 0..ToCharArrayCopied(str, bufsize) |->
        IF k < ToCharArrayCopied(str, bufsize) THEN str[k + 1] ELSE NUL]

\* mutation: toCharArray is told the size the buffer has
BufferSizeExact(d) == d

\* the size toCharArray is told the buffer has
BufferSizeGiven(d) == d + 1

\* char randomString[digits] after the writes w: an element that was not
\* written keeps the indeterminate content old
BufferAfter(size, w, old) ==
    [k \in 1..size |-> IF (k - 1) \in DOMAIN w THEN w[k - 1] ELSE old[k]]

CallWriteRandom ==
    /\ pc = "idle"
    /\ began
    /\ \E d \in DigitChoices : Enter("writeRandom", d, <<>>, 0, "random_normalize")
    /\ ret' = "idle"

RandomNormalize ==
    /\ pc = "random_normalize"
    /\ digits' = NormalizeDigits(digits)
    /\ pc' = "random_string"
    /\ UNCHANGED <<op, holder, arg, ret, began, host, wire, busVars, locals>>

\* char randomString[digits]; getRandomString(digits, randomString);
\* a write at an index outside randomString lands in the memory next to it,
\* which is none of the variables of this call
RandomGetString ==
    /\ pc = "random_string"
    /\ \E r \in RandomChoices, old \in [1..digits -> IndeterminateChars] :
        LET w == ToCharArrayWrites(DecimalString(r), BufferSizeGiven(digits))
        IN  /\ rnd' = r
            /\ value' = BufferAfter(digits, w, old)
            /\ wrotePast' = (\E k \in DOMAIN w : k >= digits)
    /\ pc' = "random_write"
    /\ UNCHANGED <<op, holder, arg, ret, began, host, digits, wire, busVars, i,
                   readPast, pwmVars, encodeVars>>

\* write(digits, randomString);
RandomWrite ==
    /\ pc = "random_write"
    /\ ret' = "random_return"
    /\ pc' = "write_normalize"
    /\ UNCHANGED <<op, holder, arg, began, host, digits, wire, busVars, locals>>

(***************************************************************************)
(* setDisplayBrightness(digits, brightness)                                *)
(*                                                                         *)
(* A float is a 24 bit significand and a power of two: the record          *)
(* [m |-> m, e |-> e] is the number m / 2^e.                               *)
(***************************************************************************)
SignificandBits == 24

\* the bits of a / b, one binary digit at a time, until the quotient q has
\* SignificandBits bits; r is the remainder left, e the digits after the point
RECURSIVE DivideBits(_, _, _, _)
DivideBits(q, r, e, b) ==
    IF q >= 2^(SignificandBits - 1) THEN [q |-> q, r |-> r, e |-> e]
    ELSE IF 2 * r >= b THEN DivideBits(2 * q + 1, 2 * r - b, e + 1, b)
    ELSE DivideBits(2 * q, 2 * r, e + 1, b)

\* (float)a / b for integers 0 < a, 0 < b: the quotient rounded to the nearest
\* float, ties to the even significand
FloatDivide(a, b) ==
    LET d == DivideBits(a \div b, a % b, 0, b)
        up == 2 * d.r > b \/ (2 * d.r = b /\ d.q % 2 = 1)
    IN  [m |-> IF up THEN d.q + 1 ELSE d.q, e |-> d.e]

RECURSIVE Log2(_)
Log2(n) == IF n <= 1 THEN 0 ELSE 1 + Log2(n \div 2)

\* f * 128: a power of two moves the exponent only
FloatTimesSettings(f) == [m |-> f.m, e |-> f.e - Log2(PwmSettings)]

\* mutation: the float is rounded to the nearest byte
FloatToByteRounded(f) ==
    IF f.e >= 1 THEN (f.m + 2^(f.e - 1)) \div (2^f.e) ELSE f.m * 2^(0 - f.e)

\* byte = float: the fraction is dropped
FloatToByte(f) ==
    IF f.e >= 0 THEN f.m \div (2^f.e) ELSE f.m * 2^(0 - f.e)

\* if (PWM > 0x80) PWM = 0x80; else if (PWM < 0x00) PWM = 0x00;
CapPWM(b) == IF b > PwmMax THEN PwmMax ELSE IF b < 0 THEN 0 ELSE b

\* mutation: neither the test for 100 and more nor the cap
BrightnessToPWMUncapped(percent) ==
    IF percent <= PercentMin THEN 0
    ELSE FloatToByte(FloatTimesSettings(FloatDivide(percent, PercentMax)))

BrightnessToPWM(percent) ==
    IF percent <= PercentMin THEN 0
    ELSE IF percent >= PercentMax THEN PwmMax
    ELSE CapPWM(FloatToByte(FloatTimesSettings(FloatDivide(percent, PercentMax))))

CallSetDisplayBrightness ==
    /\ pc = "idle"
    /\ began
    /\ \E d \in DigitChoices, percent \in BrightnessChoices :
        Enter("setDisplayBrightness", d, <<>>, percent, "pwm_convert")
    /\ ret' = "idle"

BrightnessConvert ==
    /\ pc = "pwm_convert"
    /\ PWM' = BrightnessToPWM(brightness)
    /\ pc' = "pwm_setup"
    /\ UNCHANGED <<op, holder, arg, ret, began, host, digits, wire, busVars,
                   writeVars, brightness, encodeVars>>

BrightnessSetup ==
    /\ pc = "pwm_setup"
    /\ setupWireTransmission(digits)
    /\ pc' = "pwm_register"
    /\ UNCHANGED <<op, holder, arg, ret, began, host, digits, busVars, locals>>

\* mutation: the register is the one the comment of the line names
BrightnessRegisterLighting ==
    /\ pc = "pwm_register"
    /\ wire' = WireWrite(IS31FL3730_Lighting_Effect_Register)
    /\ pc' = "pwm_payload"
    /\ UNCHANGED <<op, holder, arg, ret, began, host, digits, busVars, locals>>

BrightnessRegister ==
    /\ pc = "pwm_register"
    /\ wire' = WireWrite(IS31FL3730_PWM_Register)
    /\ pc' = "pwm_payload"
    /\ UNCHANGED <<op, holder, arg, ret, began, host, digits, busVars, locals>>

BrightnessPayload ==
    /\ pc = "pwm_payload"
    /\ wire' = WireWrite(PWM)
    /\ pc' = "pwm_end"
    /\ UNCHANGED <<op, holder, arg, ret, began, host, digits, busVars, locals>>

BrightnessEnd ==
    /\ pc = "pwm_end"
    /\ WireEndTransmission
    /\ pc' = "pwm_return"
    /\ UNCHANGED <<op, holder, arg, ret, began, host, digits, locals>>

(***************************************************************************)
(* The driver under sequential use: one public call at a time.             *)
(***************************************************************************)
Next ==
    \/ CallBegin
    \/ BeginPowerMax4
    \/ BeginPowerMax6
    \/ PowerMaxSetup
    \/ PowerMaxRegister
    \/ PowerMaxPayloadWrite
    \/ PowerMaxEnd
    \/ CallResetDisplay
    \/ ResetSetup
    \/ ResetRegister
    \/ ResetPayload
    \/ ResetEnd
    \/ ResetPowerMax
    \/ CallWrite
    \/ WriteNormalize
    \/ WriteSetup
    \/ WriteRegister
    \/ WriteLoop
    \/ WriteLoopExit
    \/ WriteEnd
    \/ WriteCommitSetup
    \/ WriteCommitRegister
    \/ WriteCommitPayload
    \/ WriteCommitEnd
    \/ CallWriteRandom
    \/ RandomNormalize
    \/ RandomGetString
    \/ RandomWrite
    \/ CallSetDisplayBrightness
    \/ BrightnessConvert
    \/ BrightnessSetup
    \/ BrightnessRegister
    \/ BrightnessPayload
    \/ BrightnessEnd
    \/ Return

Spec == Init /\ [][Next]_vars

(***************************************************************************)
(* The same sketch on a bus where any transaction may fail: a chip that    *)
(* answers late or not at all, a bus held by another master.               *)
(***************************************************************************)
Faulty == [Sequential EXCEPT !.narrow = TRUE, !.faulty = TRUE]

SpecFaulty == PowerOn(Faulty) /\ [][Next]_vars

(***************************************************************************)
(* The same sketch on a reliable bus, with the data and PWM registers of   *)
(* both chips followed.                                                    *)
(***************************************************************************)
Chips == [Sequential EXCEPT !.narrow = TRUE, !.chips = TRUE]

SpecChips == PowerOn(Chips) /\ [][Next]_vars

(***************************************************************************)
(* Two tasks of one sketch call the driver, the scheduler switching        *)
(* between them at any statement.  The sketch either holds one lock around *)
(* every public call, and its tasks call without end, or it has no lock,   *)
(* and each of its tasks makes one call.                                   *)
(***************************************************************************)
Tasks(lock) ==
    [Sequential EXCEPT !.narrow = TRUE, !.tasks = 2, !.locking = lock,
                       !.once = ~lock]

InitTasks == \E lock \in BOOLEAN : PowerOn(Tasks(lock))

NextTasks ==
    \/ Next
    \/ Switch

SpecTasks == InitTasks /\ [][NextTasks]_vars

(***************************************************************************)
(* charToDisplayByte alone, called once with any char.                     *)
(***************************************************************************)
InitEncode ==
    /\ pc = "encode"
    /\ op = "charToDisplayByte"
    /\ arg = 0
    /\ ret = "idle"
    /\ began = FALSE
    /\ digits = 0
    /\ value = <<>>
    /\ i = 0
    /\ readPast = FALSE
    /\ rnd = 0
    /\ wrotePast = FALSE
    /\ brightness = 0
    /\ PWM = 0
    /\ displayCharacter \in CharValues
    /\ displayByte = 0
    /\ wire = WireIdle
    /\ sent = <<>>
    /\ acked = <<>>
    /\ currentLimit = [a \in Addresses |-> "Unsafe"]
    /\ registers = [a \in Addresses |-> RegistersDefault]
    /\ setup = Sequential
    /\ running = 1
    /\ parked = NoCall
    /\ holder = 0

Encode ==
    /\ pc = "encode"
    /\ displayByte' = charToDisplayByte(displayCharacter)
    /\ pc' = "encoded"
    /\ UNCHANGED <<op, holder, arg, ret, began, host, digits, writeVars, pwmVars,
                   displayCharacter, wire, busVars>>

NextEncode == Encode

SpecEncode == InitEncode /\ [][NextEncode]_vars


(***************************************************************************)
(* What the claims speak of.                                               *)
(***************************************************************************)
\* the operation has executed all its statements and is about to return
AtReturn(name) == op = name /\ pc \in ReturnPoints

\* the address and the digit count a digit-count argument stands for
ExpectedAddress(d) == IF d = 4 THEN 99 ELSE 96
ExpectedDigits(d) == IF d = 4 THEN 4 ELSE 6

\* the text the caller handed to write(): value without its terminator
Text == SubSeq(value, 1, Len(value) - 1)

\* the segment table of the specification
TableByte(c) ==
    CASE c = 48 -> 63 [] c = 49 -> 6 [] c = 50 -> 91 [] c = 51 -> 79
      [] c = 52 -> 102 [] c = 53 -> 109 [] c = 54 -> 125 [] c = 55 -> 7
      [] c = 56 -> 127 [] c = 57 -> 111 [] OTHER -> 0

DigitPatterns == {63, 6, 91, 79, 102, 109, 125, 7, 127, 111}

\* transactions by their shape
IsLimitWrite(t) == Len(t.bytes) >= 1 /\ t.bytes[1] = 13
IsMaxWrite(t, a) == t = [address |-> a, bytes |-> <<13, 11>>]
IsResetWrite(t, a) == t.address = a /\ Len(t.bytes) = 2 /\ t.bytes[1] = 255
IsDataStage(t) == Len(t.bytes) >= 1 /\ t.bytes[1] = 1
IsCommit(t) == Len(t.bytes) = 2 /\ t.bytes[1] = 12

(***************************************************************************)
(* C1                                                                      *)
(***************************************************************************)
\* C1: whenever a public operation has returned (begin() being the first),
\* both chips have the Max current limit; a chip has the Unsafe limit only
\* before the first call or strictly inside begin() or resetDisplay().
CurrentLimitSafety ==
    /\ (pc \in ReturnPoints \/ (pc = "idle" /\ began)) =>
            \A a \in Addresses : currentLimit[a] = "Max"
    /\ \A a \in Addresses :
        currentLimit[a] = "Unsafe" =>
            \/ op = "none"
            \/ /\ op \in {"begin", "resetDisplay"}
               /\ pc \notin ReturnPoints \cup {"idle"}

\* resetDisplay has made a chip Unsafe and has returned with both at Max
CurrentLimitSafetyWitness ==
    /\ pc = "idle" /\ began /\ op = "resetDisplay"
    /\ \A a \in Addresses : currentLimit[a] = "Max"

\* the Unsafe limit is seen inside resetDisplay after begin() returned
UnsafeInsideReset ==
    /\ began /\ op = "resetDisplay" /\ pc = "pmax_payload"
    /\ currentLimit[96] = "Unsafe"

(***************************************************************************)
(* C2                                                                      *)
(***************************************************************************)
\* C2: resetDisplay(d) emits exactly two transactions to the address of d:
\* first [0xFF, one byte], then [0x0D, 0x0B]; at every point of the call the
\* transactions closed so far are the beginning of that sequence, and the
\* Lighting Effect write is not opened before the reset write is closed.
ResetThenMax ==
    op = "resetDisplay" =>
        /\ Len(sent) <= 2
        /\ Len(sent) >= 1 => IsResetWrite(sent[1], ExpectedAddress(arg))
        /\ Len(sent) = 2 => IsMaxWrite(sent[2], ExpectedAddress(arg))
        /\ (Len(sent) = 0 /\ wire.buffer # <<>>) => wire.buffer[1] = 255
        /\ pc \in ReturnPoints => Len(sent) = 2

ResetThenMaxWitness ==
    /\ AtReturn("resetDisplay") /\ arg = 4
    /\ sent = <<[address |-> 99, bytes |-> <<255, 0>>],
                [address |-> 99, bytes |-> <<13, 11>>]>>

(***************************************************************************)
(* C3                                                                      *)
(***************************************************************************)
\* C3: when begin() returns it has issued [0x0D, 0x0B] to 0x63 and to 0x60,
\* and before each it has issued no Lighting Effect write with another
\* payload to that address.
BeginForcesMax ==
    AtReturn("begin") =>
        \A a \in {99, 96} :
            \E k \in 1..Len(sent) :
                /\ IsMaxWrite(sent[k], a)
                /\ \A j \in 1..(k - 1) :
                    ~(sent[j].address = a /\ IsLimitWrite(sent[j])
                        /\ ~IsMaxWrite(sent[j], a))

BeginForcesMaxWitness ==
    /\ AtReturn("begin")
    /\ sent = <<[address |-> 99, bytes |-> <<13, 11>>],
                [address |-> 96, bytes |-> <<13, 11>>]>>

(***************************************************************************)
(* C4                                                                      *)
(***************************************************************************)
\* C4: every write() (called directly or by writeRandom) emits exactly two
\* transactions to one address: the data stage [0x01, one byte per digit]
\* and then the commit [0x0C, one byte]; the commit is opened only after the
\* data stage is closed, and the two are never one transaction.
WriteTwoPhase ==
    op \in {"write", "writeRandom"} =>
        /\ Len(sent) <= 2
        /\ Len(sent) >= 1 =>
            /\ IsDataStage(sent[1])
            /\ Len(sent[1].bytes) = 1 + ExpectedDigits(arg)
        /\ Len(sent) = 2 =>
            /\ IsCommit(sent[2])
            /\ sent[2].address = sent[1].address
        /\ (wire.open /\ wire.buffer # <<>>) =>
            IF Len(sent) = 0 THEN wire.buffer[1] = 1
            ELSE Len(sent) = 1 /\ wire.buffer[1] = 12
        /\ pc \in ReturnPoints => Len(sent) = 2

\* the commit is being written while the data stage is already on the bus
WriteTwoPhaseWitness ==
    /\ op = "write" /\ pc = "commit_end"
    /\ Len(sent) = 1 /\ IsDataStage(sent[1])
    /\ wire.open /\ wire.buffer = <<12, 0>>

(***************************************************************************)
(* C5                                                                      *)
(***************************************************************************)
\* C5: for a text shorter than the normalized digit count n, write() emits
\* a data stage whose n payload bytes are the encodings of the characters
\* of the text followed by 0x00 up to n, and then the commit.
BlankPadding ==
    (AtReturn("write") /\ Len(Text) < ExpectedDigits(arg)) =>
        /\ Len(sent) = 2
        /\ sent[1].bytes =
            <<1>> \o [j \in 1..ExpectedDigits(arg) |->
                        IF j <= Len(Text) THEN TableByte(Text[j]) ELSE 0]
        /\ IsCommit(sent[2])

(***************************************************************************)
(* C6                                                                      *)
(***************************************************************************)
\* C6: for a text of at least n characters, n the normalized digit count,
\* write() emits to the display's address a data stage with exactly n
\* payload bytes, the encodings of the first n characters in order.
Truncation ==
    (AtReturn("write") /\ Len(Text) >= ExpectedDigits(arg)) =>
        /\ Len(sent) >= 1
        /\ sent[1] =
            [address |-> ExpectedAddress(arg),
             bytes |-> <<1>> \o [j \in 1..ExpectedDigits(arg) |->
                                    TableByte(Text[j])]]

\* write(6, "1234567") has sent '1'..'6' to 0x60
TruncationWitness ==
    /\ AtReturn("write") /\ arg = 6
    /\ Text = <<49, 50, 51, 52, 53, 54, 55>>
    /\ sent[1] = [address |-> 96, bytes |-> <<1, 6, 91, 79, 102, 109, 125>>]

DisplayIdentity ==
    op \in {"write", "writeRandom", "resetDisplay", "setDisplayBrightness"} =>
        /\ wire.open => wire.address = ExpectedAddress(arg)
        /\ \A k \in 1..Len(sent) :
            /\ sent[k].address = ExpectedAddress(arg)
            /\ IsDataStage(sent[k]) =>
                Len(sent[k].bytes) = 1 + ExpectedDigits(arg)

\* a negative digit count has rendered six digits on 0x60
DisplayIdentityWitness ==
    /\ AtReturn("write") /\ arg < 0
    /\ Len(sent) = 2 /\ sent[1].address = 96 /\ Len(sent[1].bytes) = 7

(***************************************************************************)
(* C9                                                                      *)
(***************************************************************************)
\* the PWM byte the specification gives: the nearest integer to p * 128 / 100
RoundedPWM(p) ==
    IF p <= 0 THEN 0
    ELSE IF p >= 100 THEN 128
    ELSE (2 * p * 128 + 100) \div 200

\* the same with the fraction dropped
TruncatedPWM(p) ==
    IF p <= 0 THEN 0
    ELSE IF p >= 100 THEN 128
    ELSE (p * 128) \div 100

\* C9 as stated: setDisplayBrightness(d, p) writes 0x00 for p <= 0, 0x80 for
\* p >= 100 and round(p / 100 * 128) for p in 1..99.
BrightnessRounded ==
    AtReturn("setDisplayBrightness") =>
        /\ Len(sent) = 1
        /\ sent[1].bytes = <<25, RoundedPWM(brightness)>>

\* C9 amended: setDisplayBrightness(d, p) writes 0x00 for p <= 0, 0x80 for
\* p >= 100 and for p in 1..99 the integer part of p / 100 * 128 (the
\* fraction is dropped, not rounded).
BrightnessTruncated ==
    AtReturn("setDisplayBrightness") =>
        /\ Len(sent) = 1
        /\ sent[1].bytes = <<25, TruncatedPWM(brightness)>>

\* 2 percent is 2.56 settings: the byte written is 2, not 3
BrightnessTruncatedWitness ==
    /\ AtReturn("setDisplayBrightness") /\ brightness = 2
    /\ sent[1].bytes = <<25, 2>>

NoReadPastText ==
    (op = "write" /\ Len(Text) + 1 < ExpectedDigits(arg)) => ~readPast

(***************************************************************************)
(* C12                                                                     *)
(***************************************************************************)
\* every transaction the running call has closed, and the one it is writing
Emitted ==
    {sent[k].bytes : k \in 1..Len(sent)} \cup {wire.buffer}

OnlyMaxWritten ==
    /\ \A b \in Emitted :
        (Len(b) >= 2 /\ b[1] = 13) => (Len(b) = 2 /\ b[2] = 11)
    /\ \A a \in Addresses : currentLimit[a] # "Min"

\* resetDisplay is about to end its Lighting Effect transaction
OnlyMaxWrittenWitness ==
    /\ op = "resetDisplay" /\ pc = "pmax_end"
    /\ wire.buffer = <<13, 11>>

(***************************************************************************)
(* C18                                                                     *)
(***************************************************************************)
\* C18: the byte setDisplayBrightness writes to the PWM register is in
\* 0x00..0x80 for every brightness, and it is not below the byte of any
\* smaller brightness nor above the byte of any larger one.
PwmInRange ==
    /\ \A b \in Emitted :
        (Len(b) >= 2 /\ b[1] = 25) => b[2] \in 0..128
    /\ AtReturn("setDisplayBrightness") =>
        \A p \in BrightnessInputs :
            /\ p <= brightness => BrightnessToPWM(p) <= sent[1].bytes[2]
            /\ p >= brightness => BrightnessToPWM(p) >= sent[1].bytes[2]

\* a brightness above 100 has been written as 0x80
PwmInRangeWitness ==
    /\ AtReturn("setDisplayBrightness") /\ brightness > 100
    /\ sent[1].bytes = <<25, 128>>

(***************************************************************************)
(* C19                                                                     *)
(***************************************************************************)
\* C19: getRandomString writes only the elements 0..n-1 of the n elements
\* of randomString, none at index n or beyond.
RandomStringInBounds ==
    op = "writeRandom" => ~wrotePast

(***************************************************************************)
(* C14                                                                     *)
(***************************************************************************)
RegisterAddresses == {1, 12, 13, 25, 255}

\* C14: called by one task, the driver never begins a transmission while
\* one is open, writes a byte or ends a transmission only inside an open
\* one, starts every transaction with one of the register addresses 0x01,
\* 0x0C, 0x0D, 0x19, 0xFF, and has no transmission open when a public
\* operation returns.
TransactionDiscipline ==
    /\ wire.misuse = {}
    /\ wire.open => wire.owners = {running}
    /\ \A k \in 1..Len(sent) :
        /\ sent[k].bytes # <<>>
        /\ sent[k].bytes[1] \in RegisterAddresses
    /\ wire.buffer # <<>> => wire.buffer[1] \in RegisterAddresses
    /\ ~wire.open => wire.buffer = <<>>
    /\ pc \in ReturnPoints \cup {"idle"} => ~wire.open

TransactionDisciplineWitness ==
    /\ AtReturn("write")
    /\ Len(sent) = 2
    /\ ~wire.open
    /\ wire.misuse = {}

(***************************************************************************)
(* C16                                                                     *)
(***************************************************************************)
\* the transactions each operation emits on a bus that never fails
MaxWrite(a) == [address |-> a, bytes |-> <<13, 11>>]
ResetWrite(a) == [address |-> a, bytes |-> <<255, 0>>]
CommitWrite(a) == [address |-> a, bytes |-> <<12, 0>>]

DataStageOf(t, d) ==
    /\ t.address = ExpectedAddress(d)
    /\ Len(t.bytes) = ExpectedDigits(d) + 1
    /\ t.bytes[1] = 1
    /\ \A k \in 1..ExpectedDigits(d) :
        k <= Len(value) => t.bytes[k + 1] = charToDisplayByte(value[k])

\* C16: whichever transactions the transport fails, every operation returns
\* having emitted each of its transactions once, in order and with the bytes
\* it emits on a bus that never fails: write() its data stage and then its
\* commit, resetDisplay() its reset and then the Max write, begin() the two
\* Max writes, setDisplayBrightness() its PWM write.
FailuresIgnored ==
    /\ Len(acked) = Len(sent)
    /\ (AtReturn("write") \/ AtReturn("writeRandom")) =>
        /\ Len(sent) = 2
        /\ DataStageOf(sent[1], arg)
        /\ sent[2] = CommitWrite(ExpectedAddress(arg))
    /\ AtReturn("resetDisplay") =>
        sent = <<ResetWrite(ExpectedAddress(arg)), MaxWrite(ExpectedAddress(arg))>>
    /\ AtReturn("begin") => sent = <<MaxWrite(99), MaxWrite(96)>>
    /\ AtReturn("setDisplayBrightness") =>
        sent = <<[address |-> ExpectedAddress(arg),
                  bytes |-> <<25, BrightnessToPWM(brightness)>>]>>

\* write() has returned after a data stage that failed, resetDisplay() after
\* a reset that failed
FailuresIgnoredWitness ==
    /\ AtReturn("write")
    /\ acked = <<FALSE, TRUE>>
    /\ sent[2] = CommitWrite(99)

ResetFailureIgnored ==
    /\ AtReturn("resetDisplay")
    /\ acked = <<FALSE, TRUE>>
    /\ sent[2] = MaxWrite(96)
    /\ currentLimit[96] = "Max"

(***************************************************************************)
(* C15                                                                     *)
(***************************************************************************)
InWrite == op \in {"write", "writeRandom"}

\* the first digits data registers hold the digit bytes of data stage t
ShowsStage(regs, t, d) ==
    \A k \in 1..ExpectedDigits(d) : regs[k] = t.bytes[k + 1]

StagedNotVisible ==
    /\ InWrite
    /\ pc = "commit_setup"
    /\ registers[ExpectedAddress(arg)].staging # registers[ExpectedAddress(arg)].visible

(***************************************************************************)
(* C20                                                                     *)
(***************************************************************************)
\* a public operation other than begin() is running or at its return
InDisplayCall ==
    /\ op \in {"write", "writeRandom", "resetDisplay", "setDisplayBrightness"}
    /\ pc # "idle"

OtherAddress(d) == IF d = 4 THEN 96 ELSE 99

\* C20: while a public operation other than begin() runs with digit count
\* d, every transmission it begins and every transaction it emits is for
\* the address of d (0x63 for 4, 0x60 otherwise), and no step of it changes
\* the staged data, the visible data, the PWM or the current limit of the
\* chip at the other address.
DisplayIsolation ==
    [][InDisplayCall =>
        /\ wire.open => wire.address = ExpectedAddress(arg)
        /\ \A k \in 1..Len(sent) : sent[k].address = ExpectedAddress(arg)
        /\ registers'[OtherAddress(arg)] = registers[OtherAddress(arg)]
        /\ currentLimit'[OtherAddress(arg)] = currentLimit[OtherAddress(arg)]
      ]_vars

\* resetDisplay(4) has returned and the six digit display still shows what
\* was written to it, at the PWM and the limit it had
DisplayIsolationWitness ==
    /\ AtReturn("resetDisplay")
    /\ arg = 4
    /\ sent = <<ResetWrite(99), MaxWrite(99)>>
    /\ registers[99] = RegistersDefault
    /\ registers[96].visible # RegistersDefault.visible
    /\ registers[96].pwm # RegistersDefault.pwm
    /\ currentLimit[96] = "Max"

(***************************************************************************)
(* C17                                                                     *)
(***************************************************************************)
\* bytes of two tasks' operations are in the transaction being built
Interleaved == wire.open /\ Cardinality(wire.owners) > 1

\* a transmission was begun while another was open
OpenedWhileOpen == "begin while open" \in wire.misuse

UnlockedOpensTwice ==
    /\ ~setup.locking
    /\ OpenedWhileOpen

\* with the lock: both tasks have made calls
LockedBothCalled ==
    /\ setup.locking
    /\ running = 2
    /\ AtReturn("write")
    /\ parked.op = "resetDisplay"

====
